---------------------------- MODULE Spec2Model ----------------------------
(***************************************************************************)
(* Model of mcp_reddit/reddit_fetcher.py: seven read-only tool operations  *)
(* over an external Content Source (the redditwarp client), the post       *)
(* classifier (_get_post_type, _get_content) and the comment tree renderer *)
(* (_format_comment_tree).                                                 *)
(*                                                                         *)
(* Python strings are TLA+ strings (TLC evaluates \o, Len and SubSeq on    *)
(* them).  An Optional value is a tuple: <<>> is None and <<v>> is v.      *)
(* Each tool invocation is a coroutine: the code between two awaits runs   *)
(* atomically, so every action is one run from a suspend point to the      *)
(* next suspend point or to the return.                                    *)
(***************************************************************************)
EXTENDS Integers, Sequences, FiniteSets, TLC

(***************************************************************************)
(* Bounds of the model.                                                    *)
(***************************************************************************)
NumInv == 2         \* invocation slots of the host
MaxItems == 2       \* items a result stream yields (one invocation at a time)
MaxNodes == 3       \* comments in a fetched comment tree
MaxSubs == 2        \* names in the list given to search_multiple_subreddits
MaxConcItems == 1   \* items per stream / comments per tree, concurrent host

Inv == 1..NumInv

(***************************************************************************)
(* Optional values and Python built-ins.                                   *)
(***************************************************************************)
None == <<>>
Some(v) == <<v>>

\* Python default parameter binding: the default is used when the caller
\* supplies nothing.
Default(given, dflt) == IF given = None THEN dflt ELSE given[1]

\* str(x) inside an f-string, for an Optional[str]: None prints as "None".
str(opt) == IF opt = None THEN "None" ELSE opt[1]

\* x or '[deleted]': None and the empty string are both falsy.
or_deleted(name) == IF name = None \/ name[1] = "" THEN "[deleted]" ELSE name[1]

startswith(s, p) == Len(s) >= Len(p) /\ SubSeq(s, 1, Len(p)) = p

endswith(s, p) == Len(s) >= Len(p) /\ SubSeq(s, Len(s) - Len(p) + 1, Len(s)) = p

removeprefix(s, p) == IF startswith(s, p) THEN SubSeq(s, Len(p) + 1, Len(s)) ELSE s

RECURSIVE join(_, _)
join(sep, xs) ==
  IF xs = <<>> THEN ""
  ELSE IF Len(xs) = 1 THEN xs[1]
  ELSE xs[1] \o sep \o join(sep, Tail(xs))

RECURSIVE repeat(_, _)
repeat(s, n) == IF n <= 0 THEN "" ELSE s \o repeat(s, n - 1)

\* s.split(sep) for a one-character separator.
RECURSIVE split_from(_, _, _, _)
split_from(s, sep, i, start) ==
  IF i > Len(s) THEN <<SubSeq(s, start, Len(s))>>
  ELSE IF SubSeq(s, i, i) = sep
       THEN <<SubSeq(s, start, i - 1)>> \o split_from(s, sep, i + 1, i + 1)
       ELSE split_from(s, sep, i + 1, start)

split(s, sep) == split_from(s, sep, 1, 1)

SeqsUpTo(S, n) == UNION {[1..k -> S] : k \in 0..n}

(***************************************************************************)
(* Records the Content Source yields.                                      *)
(***************************************************************************)
\* cls is the submission's class.  link is the address a link post points to
\* (LinkPost.link), body a text post's text, gallery_link a gallery's address.
Sub(cls, title, score, comment_count, author, permalink, link, body, gallery_link) ==
  [cls |-> cls, title |-> title, score |-> score, comment_count |-> comment_count,
   author_display_name |-> author, permalink |-> permalink,
   link |-> link, body |-> body, gallery_link |-> gallery_link]

Submissions ==
  { Sub("LinkPost", "t1", 5, 2, Some("al"), "/r/a/1", "http://ex.com/x", "", ""),
    Sub("TextPost", "t3", -7, 1, None, "/r/a/3", "", "hello", ""),
    Sub("TextPost", "t4", 0, 0, Some(""), "/r/a/4", "", "", ""),
    Sub("GalleryPost", "t5", 3, 4, Some("al"), "/r/a/5", "", "", "http://g/5"),
    Sub("CrosspostSubmission", "t6", 1, 0, Some("bo"), "/r/a/6", "", "", "") }

\* The one submission the source yields to the concurrent host.
ConcSubmissions == {s \in Submissions : s.title = "t3"}

\* Comments of a user listing.
UserComments ==
  { [link_id |-> "t3_p1", score |-> 4, body |-> "nice", permalink |-> "/r/a/1/c1"],
    [link_id |-> "p2", score |-> -3, body |-> "", permalink |-> "/r/a/2/c2"] }

\* The one comment the source yields to the concurrent host.
ConcUserComments == {c \in UserComments : c.link_id = "t3_p1"}

\* Popular subreddits.
Subreddits == { [display_name |-> "aww"], [display_name |-> "news"] }

\* Comments of a comment tree; a body may span several lines.
TreeComments ==
  { [author_display_name |-> Some("al"), score |-> 3, body |-> "hi"],
    [author_display_name |-> None, score |-> -2, body |-> "a\nb"] }

Node(c, ch) == [value |-> c, children |-> ch]

\* The ordered forests of exactly n comments.
RECURSIVE ForestsN(_)
ForestsN(n) ==
  IF n = 0 THEN {<<>>}
  ELSE UNION { { <<Node(c, ch)>> \o rest :
                   c \in TreeComments, ch \in ForestsN(k), rest \in ForestsN(n - 1 - k) }
               : k \in 0..(n - 1) }

Forests(max) == UNION {ForestsN(n) : n \in 0..max}

\* The comment trees the Content Source answers with.
Trees == Forests(MaxNodes)
ConcTrees == Forests(MaxConcItems)

\* str(e) of the failures the Content Source raises.
FailMsgs == {"boom", ""}

(***************************************************************************)
(* Post Classifier.                                                        *)
(***************************************************************************)
_get_post_type(submission) ==
  IF submission.cls = "LinkPost" THEN "link"
  ELSE IF submission.cls = "TextPost" THEN "text"
  ELSE IF submission.cls = "GalleryPost" THEN "gallery"
  ELSE "unknown"

_get_content_unknown_empty(submission) ==
  IF submission.cls = "LinkPost" THEN Some(submission.permalink)
  ELSE IF submission.cls = "TextPost" THEN Some(submission.body)
  ELSE IF submission.cls = "GalleryPost" THEN Some(submission.gallery_link)
  ELSE Some("")

_get_content(submission) ==
  IF submission.cls = "LinkPost" THEN Some(submission.permalink)
  ELSE IF submission.cls = "TextPost" THEN Some(submission.body)
  ELSE IF submission.cls = "GalleryPost" THEN Some(submission.gallery_link)
  ELSE None

(***************************************************************************)
(* Text blocks of the listings.                                            *)
(***************************************************************************)
\* The block of hot threads and of the three searches.
post_info(submission) ==
  "Title: " \o submission.title \o "\n"
  \o "Score: " \o ToString(submission.score) \o "\n"
  \o "Comments: " \o ToString(submission.comment_count) \o "\n"
  \o "Author: " \o or_deleted(submission.author_display_name) \o "\n"
  \o "Type: " \o _get_post_type(submission) \o "\n"
  \o "Content: " \o str(_get_content(submission)) \o "\n"
  \o "Link: https://reddit.com" \o submission.permalink \o "\n"
  \o "---"

\* The block of a user's posts: no author line.
user_post_info(submission) ==
  "Title: " \o submission.title \o "\n"
  \o "Score: " \o ToString(submission.score) \o "\n"
  \o "Comments: " \o ToString(submission.comment_count) \o "\n"
  \o "Type: " \o _get_post_type(submission) \o "\n"
  \o "Content: " \o str(_get_content(submission)) \o "\n"
  \o "Link: https://reddit.com" \o submission.permalink \o "\n"
  \o "---"

comment_info(comment) ==
  "Post ID: " \o removeprefix(comment.link_id, "t3_") \o "\n"
  \o "Score: " \o ToString(comment.score) \o "\n"
  \o "Content: " \o comment.body \o "\n"
  \o "Link: https://reddit.com" \o comment.permalink \o "\n"
  \o "---"

\* The head of get_post_details' text.
post_content(submission) ==
  "Title: " \o submission.title \o "\n"
  \o "Score: " \o ToString(submission.score) \o "\n"
  \o "Author: " \o or_deleted(submission.author_display_name) \o "\n"
  \o "Type: " \o _get_post_type(submission) \o "\n"
  \o "Content: " \o str(_get_content(submission)) \o "\n"
  \o "Link: https://reddit.com" \o submission.permalink \o "\n"

(***************************************************************************)
(* Comment Tree Renderer.                                                  *)
(***************************************************************************)
indent(depth) == repeat("-- ", depth)

comment_block(comment, depth) ==
  indent(depth) \o "* Author: " \o or_deleted(comment.author_display_name) \o "\n"
  \o indent(depth) \o "  Score: " \o ToString(comment.score) \o "\n"
  \o indent(depth) \o "  " \o comment.body \o "\n"

RECURSIVE _format_comment_tree(_, _)
RECURSIVE format_children(_, _)
\* for child in children: content += "\n" + _format_comment_tree(child, depth)
format_children(children, depth) ==
  IF children = <<>> THEN ""
  ELSE "\n" \o _format_comment_tree(Head(children), depth)
       \o format_children(Tail(children), depth)

_format_comment_tree(comment_node, depth) ==
  comment_block(comment_node.value, depth)
  \o format_children(comment_node.children, depth + 1)

\* What get_post_details appends to the head once the tree is fetched.
comments_section(children) ==
  IF children # <<>>
  THEN "\nComments:\n" \o format_children(children, 0)
  ELSE "\nNo comments found."

(***************************************************************************)
(* State.  Every variable is indexed by the invocation slot: the module    *)
(* holds no mutable state of its own besides the client handle, which the  *)
(* tools only call.                                                        *)
(*   pc       where the coroutine is suspended                             *)
(*   op       the tool invoked                                             *)
(*   args     the arguments as the caller gave them (None: not supplied)   *)
(*   posts    the result buffer (posts, user_content, trending_subs)       *)
(*   content  get_post_details' text so far                                *)
(*   result   the string returned                                          *)
(*   raised   whether an exception left the tool                           *)
(*   log      what the Content Source saw and answered, in order           *)
(***************************************************************************)
VARIABLES pc, op, args, posts, content, result, raised, log

vars == <<pc, op, args, posts, content, result, raised, log>>

NoArgs == [tool |-> "none"]

Init ==
  /\ pc = [i \in Inv |-> "idle"]
  /\ op = [i \in Inv |-> "none"]
  /\ args = [i \in Inv |-> NoArgs]
  /\ posts = [i \in Inv |-> <<>>]
  /\ content = [i \in Inv |-> ""]
  /\ result = [i \in Inv |-> ""]
  /\ raised = [i \in Inv |-> FALSE]
  /\ log = [i \in Inv |-> <<>>]

\* A call of the client's API, as the Content Source receives it.
Call(api, a) == [kind |-> "call", api |-> api, args |-> a]

SearchArgs(sr, query, amount, sort, time) ==
  [sr |-> sr, query |-> query, amount |-> amount, sort |-> sort, time |-> time]

\* The tool starts: locals are fresh, the first call is issued and the
\* coroutine suspends at `next`.
Start(i, tool, a, first_call, next) ==
  /\ pc[i] = "idle"
  /\ pc' = [pc EXCEPT ![i] = next]
  /\ op' = [op EXCEPT ![i] = tool]
  /\ args' = [args EXCEPT ![i] = a]
  /\ posts' = [posts EXCEPT ![i] = <<>>]
  /\ log' = [log EXCEPT ![i] = Append(@, first_call)]
  /\ UNCHANGED <<content, result, raised>>

\* return value: the locals die with the frame.
Return(i, value) ==
  /\ pc' = [pc EXCEPT ![i] = "done"]
  /\ result' = [result EXCEPT ![i] = value]
  /\ posts' = [posts EXCEPT ![i] = <<>>]
  /\ content' = [content EXCEPT ![i] = ""]
  /\ UNCHANGED <<op, args, raised>>

(***************************************************************************)
(* The seven tools, up to their first suspend point.                       *)
(***************************************************************************)
fetch_reddit_hot_threads(i, subreddit, limit) ==
  Start(i, "fetch_reddit_hot_threads",
        [subreddit |-> subreddit, limit |-> limit],
        Call("subreddit.pull.hot", <<subreddit, Default(limit, 10)>>), "iter")

get_post_details(i, post_id, comment_limit, comment_sort) ==
  Start(i, "get_post_details",
        [post_id |-> post_id, comment_limit |-> comment_limit,
         comment_sort |-> comment_sort],
        Call("submission.fetch", <<post_id>>), "fetch_submission")

search_posts_sr_all(subreddit) ==
  IF subreddit # None /\ subreddit[1] # "" THEN subreddit[1] ELSE "all"

\* if subreddit: search_params['subreddit'] = subreddit
\* sr = search_params.pop('subreddit', '')
search_posts_sr(subreddit) ==
  IF subreddit # None /\ subreddit[1] # "" THEN subreddit[1] ELSE ""

search_posts(i, query, subreddit, sort, time_filter, limit) ==
  Start(i, "search_posts",
        [query |-> query, subreddit |-> subreddit, sort |-> sort,
         time_filter |-> time_filter, limit |-> limit],
        Call("submission.search",
             SearchArgs(search_posts_sr(subreddit), query, Default(limit, 25),
                        Default(sort, "relevance"), Default(time_filter, "all"))),
        "iter")

search_subreddit(i, subreddit, query, sort, time_filter, limit) ==
  Start(i, "search_subreddit",
        [subreddit |-> subreddit, query |-> query, sort |-> sort,
         time_filter |-> time_filter, limit |-> limit],
        Call("submission.search",
             SearchArgs(subreddit, query, Default(limit, 25),
                        Default(sort, "hot"), Default(time_filter, "week"))),
        "iter")

content_type_branch_posts_else(content_type) ==
  IF content_type = "comments" THEN "comments" ELSE "posts"

\* if content_type == "posts": ... elif content_type == "comments": ... else: ...
content_type_branch(content_type) ==
  IF content_type = "posts" THEN "posts"
  ELSE IF content_type = "comments" THEN "comments"
  ELSE "invalid"

get_user_content(i, username, content_type, limit) ==
  LET ct == Default(content_type, "posts")
      a == [username |-> username, content_type |-> content_type, limit |-> limit]
      branch == content_type_branch(ct)
  IN  IF branch = "posts"
      THEN Start(i, "get_user_content", a,
                 Call("user.pull.submitted", <<username, Default(limit, 25)>>), "iter")
      ELSE IF branch = "comments"
      THEN Start(i, "get_user_content", a,
                 Call("user.pull.comments", <<username, Default(limit, 25)>>), "iter")
      ELSE /\ pc[i] = "idle"
           /\ op' = [op EXCEPT ![i] = "get_user_content"]
           /\ args' = [args EXCEPT ![i] = a]
           /\ pc' = [pc EXCEPT ![i] = "done"]
           /\ result' = [result EXCEPT ![i] =
                           "Invalid content_type. Must be 'posts' or 'comments'."]
           /\ UNCHANGED <<posts, content, raised, log>>

get_trending_subreddits(i, limit) ==
  Start(i, "get_trending_subreddits", [limit |-> limit],
        Call("subreddit.pull.popular", <<Default(limit, 10)>>), "iter")

subreddit_string_reversed(subreddits) ==
  join("+", [k \in 1..Len(subreddits) |-> subreddits[Len(subreddits) + 1 - k]])

\* subreddit_string = "+".join(subreddits)
subreddit_string(subreddits) == join("+", subreddits)

search_multiple_subreddits(i, subreddits, query, sort, time_filter, limit) ==
  Start(i, "search_multiple_subreddits",
        [subreddits |-> subreddits, query |-> query, sort |-> sort,
         time_filter |-> time_filter, limit |-> limit],
        Call("submission.search",
             SearchArgs(subreddit_string(subreddits), query, Default(limit, 25),
                        Default(sort, "relevance"), Default(time_filter, "all"))),
        "iter")

(***************************************************************************)
(* The loops over a result stream.                                         *)
(***************************************************************************)
IsUserComments(i) ==
  op[i] = "get_user_content" /\ Default(args[i].content_type, "posts") = "comments"

\* What the stream of invocation i is made of.
StreamKind(i) ==
  IF op[i] = "get_trending_subreddits" THEN "subreddit"
  ELSE IF IsUserComments(i) THEN "comment"
  ELSE "submission"

\* The body of each tool's `async for`: the element appended for one item.
loop_body(i, item) ==
  IF op[i] = "get_trending_subreddits" THEN item.display_name
  ELSE IF op[i] = "get_user_content"
       THEN IF IsUserComments(i) THEN comment_info(item) ELSE user_post_info(item)
       ELSE post_info(item)

append_shared(i, info) == [j \in Inv |-> Append(posts[j], info)]

\* posts.append(post_info): the list is the invocation's own local.
append(i, info) == [posts EXCEPT ![i] = Append(@, info)]

\* The stream yields one more item and the loop body runs.
AsyncForYields(i, item) ==
  /\ pc[i] = "iter"
  /\ log' = [log EXCEPT ![i] = Append(@, [kind |-> "yield", what |-> StreamKind(i), item |-> item])]
  /\ posts' = append(i, loop_body(i, item))
  /\ UNCHANGED <<pc, op, args, content, result, raised>>

\* What each tool returns after its loop.
after_loop(tool, a, buffer) ==
  CASE tool = "fetch_reddit_hot_threads" -> join("\n\n", buffer)
    [] tool = "search_posts" ->
         IF buffer = <<>> THEN "No posts found matching your criteria."
         ELSE join("\n\n", buffer)
    [] tool = "search_subreddit" ->
         IF buffer = <<>>
         THEN "No posts found in r/" \o a.subreddit \o " matching your criteria."
         ELSE join("\n\n", buffer)
    [] tool = "search_multiple_subreddits" ->
         IF buffer = <<>>
         THEN "No posts found in subreddits " \o join(", ", a.subreddits)
              \o " matching your criteria."
         ELSE join("\n\n", buffer)
    [] tool = "get_trending_subreddits" ->
         IF buffer = <<>> THEN "No trending subreddits found."
         ELSE "Trending Subreddits:\n" \o join("\n", buffer)
    [] tool = "get_user_content" ->
         IF Default(a.content_type, "posts") = "comments"
         THEN IF buffer = <<>>
              THEN "No comments found for user u/" \o a.username \o "."
              ELSE "Comments by u/" \o a.username \o ":\n\n" \o join("\n\n", buffer)
         ELSE IF buffer = <<>>
              THEN "No posts found for user u/" \o a.username \o "."
              ELSE "Posts by u/" \o a.username \o ":\n\n" \o join("\n\n", buffer)

\* The stream is exhausted: the loop ends and the tool returns.
AsyncForEnds(i) ==
  /\ pc[i] = "iter"
  /\ log' = [log EXCEPT ![i] = Append(@, [kind |-> "end"])]
  /\ Return(i, after_loop(op[i], args[i], posts[i]))

(***************************************************************************)
(* get_post_details: two awaited fetches.                                  *)
(***************************************************************************)
\* submission.fetch answers: the head is built and the tree is requested.
SubmissionFetched(i, submission) ==
  /\ pc[i] = "fetch_submission"
  /\ content' = [content EXCEPT ![i] = post_content(submission)]
  /\ log' = [log EXCEPT ![i] =
               @ \o << [kind |-> "value", what |-> "submission", item |-> submission],
                       Call("comment_tree.fetch",
                            [post_id |-> args[i].post_id,
                             sort |-> Default(args[i].comment_sort, "best"),
                             limit |-> Default(args[i].comment_limit, 100)]) >>]
  /\ pc' = [pc EXCEPT ![i] = "fetch_tree"]
  /\ UNCHANGED <<op, args, posts, result, raised>>

\* comment_tree.fetch answers: the comments are rendered and the tool returns.
CommentTreeFetched(i, children) ==
  /\ pc[i] = "fetch_tree"
  /\ log' = [log EXCEPT ![i] = Append(@, [kind |-> "value", what |-> "tree", item |-> children])]
  /\ Return(i, content[i] \o comments_section(children))

(***************************************************************************)
(* except Exception as e                                                   *)
(***************************************************************************)
Suspended(i) == pc[i] \in {"iter", "fetch_submission", "fetch_tree"}

error_return_bare(e) == e

\* return f"An error occurred: {str(e)}"
error_return(e) == "An error occurred: " \o e

SourceFails_retry(i, e) ==
  /\ Suspended(i)
  /\ log' = [log EXCEPT ![i] = Append(@, [kind |-> "fail", msg |-> e])]
  /\ UNCHANGED <<pc, op, args, posts, content, result, raised>>

\* The awaited call or the stream step raises: the handler of the tool's
\* try block returns the error string.
SourceFails(i, e) ==
  /\ Suspended(i)
  /\ log' = [log EXCEPT ![i] = Append(@, [kind |-> "fail", msg |-> e])]
  /\ Return(i, error_return(e))

\* The host takes the returned string; nothing of the invocation is kept.
Collected(i) ==
  /\ pc[i] = "done"
  /\ pc' = [pc EXCEPT ![i] = "idle"]
  /\ op' = [op EXCEPT ![i] = "none"]
  /\ args' = [args EXCEPT ![i] = NoArgs]
  /\ result' = [result EXCEPT ![i] = ""]
  /\ log' = [log EXCEPT ![i] = <<>>]
  /\ UNCHANGED <<posts, content, raised>>

(***************************************************************************)
(* The Content Source's answers and the host's calls.                      *)
(***************************************************************************)
Yields(i) == Cardinality({k \in 1..Len(log[i]) : log[i][k].kind = "yield"})

ItemsOf(kind, submissions, comments) ==
  IF kind = "subreddit" THEN Subreddits
  ELSE IF kind = "comment" THEN comments
  ELSE submissions

Names == {"a", "bb"}
OptSorts == {None, Some("bogus")}
OptTimes == {None, Some("day")}
OptLimits == {None, Some(1)}
ContentTypes == {None, Some("comments"), Some("bogus"), Some("Posts")}
SubredditLists == SeqsUpTo(Names, MaxSubs)

\* The host awaits each tool before it invokes the next; the slots are
\* interchangeable and it uses the first.
Sequential(i) == \A j \in Inv \ {i} : pc[j] = "idle" /\ i < j

Next ==
  \E i \in Inv :
    \/ \E limit \in OptLimits :
         Sequential(i) /\ fetch_reddit_hot_threads(i, "a", limit)
    \/ \E cl \in OptLimits, cs \in {None, Some("top")} :
         Sequential(i) /\ get_post_details(i, "p1", cl, cs)
    \/ \E sr \in {None, Some(""), Some("a")}, sort \in OptSorts,
          time \in OptTimes, limit \in OptLimits :
         Sequential(i) /\ search_posts(i, "x", sr, sort, time, limit)
    \/ \E sort \in OptSorts, time \in OptTimes, limit \in OptLimits :
         Sequential(i) /\ search_subreddit(i, "bb", "x", sort, time, limit)
    \/ \E ct \in ContentTypes, limit \in OptLimits :
         Sequential(i) /\ get_user_content(i, "u1", ct, limit)
    \/ \E limit \in OptLimits :
         Sequential(i) /\ get_trending_subreddits(i, limit)
    \/ \E subs \in SubredditLists, sort \in OptSorts,
          time \in OptTimes, limit \in OptLimits :
         Sequential(i) /\ search_multiple_subreddits(i, subs, "x", sort, time, limit)
    \/ /\ pc[i] = "iter"
       /\ Yields(i) < MaxItems
       /\ \E item \in ItemsOf(StreamKind(i), Submissions, UserComments) : AsyncForYields(i, item)
    \/ AsyncForEnds(i)
    \/ /\ pc[i] = "fetch_submission"
       /\ \E submission \in Submissions : SubmissionFetched(i, submission)
    \/ /\ pc[i] = "fetch_tree"
       /\ \E children \in Trees : CommentTreeFetched(i, children)
    \/ \E e \in FailMsgs : SourceFails(i, e)
    \/ Collected(i)

Spec == Init /\ [][Next]_vars

\* A host that runs the tools concurrently: the invocations interleave at
\* their suspend points.
NextConc ==
  \E i \in Inv :
    \/ fetch_reddit_hot_threads(i, "a", None)
    \/ get_post_details(i, "p1", None, None)
    \/ search_posts(i, "x", None, None, None, None)
    \/ search_subreddit(i, "bb", "x", None, None, None)
    \/ \E ct \in {None, Some("comments"), Some("bogus")} :
         get_user_content(i, "u1", ct, None)
    \/ get_trending_subreddits(i, None)
    \/ search_multiple_subreddits(i, <<"a", "bb">>, "x", None, None, None)
    \/ /\ pc[i] = "iter"
       /\ Yields(i) < MaxConcItems
       /\ \E item \in ItemsOf(StreamKind(i), ConcSubmissions, ConcUserComments) : AsyncForYields(i, item)
    \/ AsyncForEnds(i)
    \/ /\ pc[i] = "fetch_submission"
       /\ \E submission \in ConcSubmissions : SubmissionFetched(i, submission)
    \/ /\ pc[i] = "fetch_tree"
       /\ \E children \in ConcTrees : CommentTreeFetched(i, children)
    \/ SourceFails(i, "boom")
    \/ Collected(i)

ConcSpec == Init /\ [][NextConc]_vars

(***************************************************************************)
(* Properties.                                                             *)
(***************************************************************************)
ErrPrefix == "An error occurred: "

Entries(i, kind) == {k \in 1..Len(log[i]) : log[i][k].kind = kind}

\* The invocation returned and the Content Source never failed it.
Succeeded(i) == pc[i] = "done" /\ Entries(i, "fail") = {}

\* The submissions the Content Source handed to invocation i.
SubmissionsSeen(i) ==
  {log[i][k].item : k \in {j \in Entries(i, "yield") \cup Entries(i, "value") :
                             log[i][j].what = "submission"}}

\* C1: whenever the Content Source fails an invocation (on the first request,
\* on a later request, or in the middle of a stream), the tool returns the
\* string "An error occurred: " followed by the failure's message and no
\* exception leaves the tool.
C1_FailureBecomesErrorString ==
  \A i \in Inv : \A k \in Entries(i, "fail") :
    /\ pc[i] = "done"
    /\ ~raised[i]
    /\ startswith(result[i], ErrPrefix)
    /\ SubSeq(result[i], Len(ErrPrefix) + 1, Len(result[i])) = log[i][k].msg

\* C1 witness: a stream failed after it had yielded an item, and the tool
\* returned the error string for the message "boom".
C1_Witness ==
  \E i \in Inv :
    /\ op[i] = "search_subreddit"
    /\ Entries(i, "yield") # {}
    /\ log[i][Len(log[i])] = [kind |-> "fail", msg |-> "boom"]
    /\ result[i] = "An error occurred: boom"

\* The Content Source answered without failure and gave zero items: an
\* exhausted stream that yielded nothing, or a comment tree with no
\* top-level children.
SucceededEmpty(i) ==
  /\ Succeeded(i)
  /\ log[i] # <<>>
  /\ Entries(i, "yield") = {}
  /\ \A k \in Entries(i, "value") : log[i][k].what = "tree" => log[i][k].item = <<>>

\* C2 (as claimed): every tool answers an empty but successful result with a
\* non-empty "none found" message that does not start with the error prefix;
\* get_trending_subreddits with exactly "No trending subreddits found." and
\* get_post_details with "No comments found.".
C2_EmptyResultIsNoneFoundMessage ==
  \A i \in Inv :
    SucceededEmpty(i) =>
      /\ result[i] # ""
      /\ ~startswith(result[i], ErrPrefix)
      /\ op[i] = "get_trending_subreddits" => result[i] = "No trending subreddits found."
      /\ op[i] = "get_post_details" => endswith(result[i], "\nNo comments found.")

\* What holds of the code: the six tools other than fetch_reddit_hot_threads
\* answer an empty but successful result with their "none found" message.
EmptyResultExceptHotThreads ==
  \A i \in Inv :
    (SucceededEmpty(i) /\ op[i] # "fetch_reddit_hot_threads") =>
      /\ result[i] # ""
      /\ ~startswith(result[i], ErrPrefix)
      /\ op[i] = "get_trending_subreddits" => result[i] = "No trending subreddits found."
      /\ op[i] = "get_post_details" => endswith(result[i], "\nNo comments found.")

\* C3: get_user_content with a content_type other than "posts" and "comments"
\* returns the invalid-argument message and the Content Source sees no call.
C3_InvalidContentType ==
  \A i \in Inv :
    (/\ op[i] = "get_user_content"
     /\ args[i].content_type # None
     /\ args[i].content_type[1] \notin {"posts", "comments"})
    => /\ pc[i] = "done"
       /\ result[i] = "Invalid content_type. Must be 'posts' or 'comments'."
       /\ log[i] = <<>>
       /\ ~raised[i]

\* C3 witness: get_user_content("u1", "bogus", 1) has returned.
C3_Witness ==
  \E i \in Inv :
    /\ op[i] = "get_user_content"
    /\ args[i] = [username |-> "u1", content_type |-> Some("bogus"), limit |-> Some(1)]
    /\ pc[i] = "done"
    /\ log[i] = <<>>

\* C4 (as claimed): for every link submission the classifier's content is the
\* submission's link target, whatever its title and score.
C4_LinkContentIsLinkTarget ==
  \A i \in Inv : \A s \in SubmissionsSeen(i) :
    s.cls = "LinkPost" => _get_content(s) = Some(s.link)

\* C5: a text submission with body B classifies as ('text', B), the empty
\* body included; a submission that is no link, text or gallery post
\* classifies as 'unknown' with content None, which is not the empty string.
C5_TextAndUnknown ==
  \A i \in Inv : \A s \in SubmissionsSeen(i) :
    /\ s.cls = "TextPost" =>
         _get_post_type(s) = "text" /\ _get_content(s) = Some(s.body)
    /\ s.cls \notin {"LinkPost", "TextPost", "GalleryPost"} =>
         /\ _get_post_type(s) = "unknown"
         /\ _get_content(s) = None
         /\ _get_content(s) # Some("")

\* C5 witness: one listing held a text post with an empty body and a post of
\* an unrecognised class, and both were rendered into the returned text.
C5_Witness ==
  \E i \in Inv :
    /\ Succeeded(i)
    /\ op[i] = "fetch_reddit_hot_threads"
    /\ \E s \in SubmissionsSeen(i) : s.cls = "TextPost" /\ s.body = ""
    /\ \E s \in SubmissionsSeen(i) : s.cls = "CrosspostSubmission"
    /\ \E k \in 1..Len(result[i]) :
         SubSeq(result[i], k, k + 27) = "Type: unknown\nContent: None\n"

\* The comments of a forest in pre-order, each with its depth.
RECURSIVE PreOrder(_, _)
PreOrder(children, depth) ==
  IF children = <<>> THEN <<>>
  ELSE << <<Head(children).value, depth>> >>
       \o PreOrder(Head(children).children, depth + 1)
       \o PreOrder(Tail(children), depth)

\* The fetched submission and comment tree of a get_post_details that
\* returned its text, and the rendering of the comments in that text.
DetailsRendered(i) ==
  /\ op[i] = "get_post_details"
  /\ Succeeded(i)
  /\ log[i][4].item # <<>>

RenderedComments(i) ==
  LET head == post_content(log[i][2].item) \o "\nComments:\n"
  IN  IF startswith(result[i], head)
      THEN SubSeq(result[i], Len(head) + 1, Len(result[i]))
      ELSE "?"

\* C6 (as claimed): the comments are rendered in pre-order; a comment at depth
\* d is a block of three lines (author, score, body), every line of it
\* prefixed by "-- " repeated d times; every block follows a blank line.
C6_PreOrderThreeLineBlocks ==
  \A i \in Inv :
    DetailsRendered(i) =>
      LET po == PreOrder(log[i][4].item, 0)
          lines == split(RenderedComments(i), "\n")
      IN  /\ Len(lines) = 4 * Len(po) + 1
          /\ lines[Len(lines)] = ""
          /\ \A k \in 1..Len(po) :
               LET c == po[k][1]
                   ind == repeat("-- ", po[k][2])
               IN  /\ lines[4 * k - 3] = ""
                   /\ lines[4 * k - 2] = ind \o "* Author: " \o or_deleted(c.author_display_name)
                   /\ lines[4 * k - 1] = ind \o "  Score: " \o ToString(c.score)
                   /\ lines[4 * k] = ind \o "  " \o c.body

\* What holds of the renderer for every tree: the text is, in pre-order and
\* each after one line break, the template's block of every comment, whose
\* author line, score line and body each start with the depth's marker.
PreOrderBlocks ==
  \A i \in Inv :
    DetailsRendered(i) =>
      LET po == PreOrder(log[i][4].item, 0)
      IN  RenderedComments(i) =
            join("", [k \in 1..Len(po) |->
                        "\n" \o repeat("-- ", po[k][2]) \o "* Author: "
                        \o or_deleted(po[k][1].author_display_name) \o "\n"
                        \o repeat("-- ", po[k][2]) \o "  Score: "
                        \o ToString(po[k][1].score) \o "\n"
                        \o repeat("-- ", po[k][2]) \o "  " \o po[k][1].body \o "\n"])

\* The one call of submission.search an invocation made.
SearchCalls(i) == {k \in Entries(i, "call") : log[i][k].api = "submission.search"}

\* C7: search_multiple_subreddits calls the Content Source's search exactly
\* once, with the names joined by "+" in the list's order as the scope, the
\* query unchanged, and sort "relevance" and time "all" unless supplied.
C7_MultiSearchCall ==
  \A i \in Inv :
    op[i] = "search_multiple_subreddits" =>
      LET a == args[i]
          c == log[i][1].args
      IN  /\ Entries(i, "call") = {1}
          /\ log[i][1].api = "submission.search"
          /\ IF a.subreddits = <<>> THEN c.sr = ""
             ELSE split(c.sr, "+") = a.subreddits
          /\ c.query = a.query
          /\ c.sort = (IF a.sort = None THEN "relevance" ELSE a.sort[1])
          /\ c.time = (IF a.time_filter = None THEN "all" ELSE a.time_filter[1])

\* C7 witness: search_multiple_subreddits(["a", "bb"], "x") ran to its end
\* and the source saw the scope "a+bb" with the default sort and time.
C7_Witness ==
  \E i \in Inv :
    /\ op[i] = "search_multiple_subreddits"
    /\ args[i].subreddits = <<"a", "bb">>
    /\ args[i].sort = None /\ args[i].time_filter = None
    /\ Succeeded(i)
    /\ log[i][1].args.sr = "a+bb"
    /\ log[i][1].args.sort = "relevance" /\ log[i][1].args.time = "all"

\* C8: search_posts calls the search with the given subreddit as the scope,
\* or with no scope (the empty scope) when none is given; query, sort,
\* time_filter and limit arrive as given, whatever their values.
C8_SearchPostsCall ==
  \A i \in Inv :
    op[i] = "search_posts" =>
      LET a == args[i]
          c == log[i][1].args
      IN  /\ SearchCalls(i) = {1}
          /\ c.sr = (IF a.subreddit = None THEN "" ELSE a.subreddit[1])
          /\ c.query = a.query
          /\ a.sort # None => c.sort = a.sort[1]
          /\ a.time_filter # None => c.time = a.time_filter[1]
          /\ a.limit # None => c.amount = a.limit[1]

\* C8 witness: an unscoped search_posts with the sort value "bogus" reached
\* the source with the empty scope and that sort value.
C8_Witness ==
  \E i \in Inv :
    /\ op[i] = "search_posts"
    /\ args[i].subreddit = None
    /\ args[i].sort = Some("bogus")
    /\ log[i][1].args.sr = ""
    /\ log[i][1].args.sort = "bogus"
    /\ pc[i] = "done"

\* C9: a failure of the Content Source is the last thing the invocation asks
\* of it: nothing follows the failure in the source's log (no retry, no
\* later call), and the invocation has ended with the error string.
C9_FailureEndsInvocation ==
  \A i \in Inv : \A k \in Entries(i, "fail") :
    /\ k = Len(log[i])
    /\ pc[i] = "done"
    /\ result[i] = ErrPrefix \o log[i][k].msg

\* C9 witness: get_post_details' submission fetch failed; the log holds that
\* call and its failure and no call of comment_tree.fetch.
C9_Witness ==
  \E i \in Inv :
    /\ op[i] = "get_post_details"
    /\ pc[i] = "done"
    /\ Len(log[i]) = 2
    /\ log[i][1].api = "submission.fetch"
    /\ log[i][2].kind = "fail"

\* The elements invocation i's loop builds from the items its own stream
\* yielded, in order.
RECURSIVE OwnElements(_, _)
OwnElements(i, k) ==
  IF k > Len(log[i]) THEN <<>>
  ELSE IF log[i][k].kind = "yield"
       THEN <<loop_body(i, log[i][k].item)>> \o OwnElements(i, k + 1)
       ELSE OwnElements(i, k + 1)

\* The string the tool returns when it runs alone with invocation i's
\* arguments and the answers the Content Source gave invocation i.
RunAlone(i) ==
  LET last == log[i][Len(log[i])]
  IN  IF log[i] = <<>>
      THEN "Invalid content_type. Must be 'posts' or 'comments'."
      ELSE IF last.kind = "fail" THEN ErrPrefix \o last.msg
      ELSE IF op[i] = "get_post_details"
           THEN post_content(log[i][2].item) \o comments_section(last.item)
           ELSE after_loop(op[i], args[i], OwnElements(i, 1))

\* C10: however the invocations interleave, each returns the string it
\* returns alone with the same arguments and the same answers, and while it
\* iterates its buffer holds the elements of its own items and no others.
C10_NoInterference ==
  \A i \in Inv :
    /\ pc[i] = "done" => result[i] = RunAlone(i) /\ ~raised[i]
    /\ pc[i] = "iter" => posts[i] = OwnElements(i, 1)

\* C10 witness: two invocations are in progress in one state: one has
\* returned the listing of its own items while the other is suspended in
\* its loop holding the one element of its own item.
C10_Witness ==
  /\ pc[1] = "done" /\ op[1] = "search_posts" /\ Succeeded(1)
  /\ Entries(1, "yield") # {}
  /\ pc[2] = "iter" /\ op[2] = "get_trending_subreddits"
  /\ posts[2] = <<"news">>
  /\ result[1] = RunAlone(1)

=============================================================================
